---- MODULE Spec2Model ----
(***************************************************************************)
(* Model of degree_score_algorithm.py: random simple-graph generation,     *)
(* one step of degree-normalised score propagation, and the interactive    *)
(* edge-addition loop.                                                     *)
(*                                                                         *)
(* Scores are Python floats in the source; here they are exact rationals   *)
(* <<numerator, denominator>> in lowest terms, so floating-point rounding  *)
(* is outside the model.  Python lists live in `heap` (address -> vector)  *)
(* so that aliasing and in-place mutation are observable.                  *)
(***************************************************************************)
EXTENDS Integers, Sequences, FiniteSets, TLC

VARIABLES pc, n, m, graph, heap, scores, out, added, nUpdates, nCalls, calls

vars == <<pc, n, m, graph, heap, scores, out, added, nUpdates, nCalls, calls>>

\* ------------------------------------------------------------------ bounds
MaxN == 3
MaxPrior == 1
MaxCalls == 2
MaxScoreCalls == 3

\* Python's None (an absent current_scores argument / no list yet).
None == 0

\* ------------------------------------------------------- exact rationals
RECURSIVE GCD(_, _)
GCD(a, b) == IF b = 0 THEN a ELSE GCD(b, a % b)

Rat(k) == <<k, 1>>

Norm(r) == LET g == GCD(r[1], r[2]) IN IF g = 0 THEN r ELSE <<r[1] \div g, r[2] \div g>>

RatAdd(a, b) ==
    LET g == GCD(a[2], b[2])
        l == (a[2] \div g) * b[2]
    IN Norm(<<a[1] * (l \div a[2]) + b[1] * (l \div b[2]), l>>)

\* x / d for a rational x and an integer d > 0
RatDiv(x, d) == Norm(<<x[1], x[2] * d>>)

Vertices(k) == 0 .. (k - 1)

\* [v] * n
Repeat(v, k) == [i \in Vertices(k) |-> v]

\* ------------------------------------------------ generate_random_graph
max_edges(k) == (k * (k - 1)) \div 2

RECURSIVE EdgesFrom(_, _, _)
EdgesFrom(i, j, k) ==
    IF i >= k THEN <<>>
    ELSE IF j >= k THEN EdgesFrom(i + 1, i + 2, k)
    ELSE <<<<i, j>>>> \o EdgesFrom(i, j + 1, k)

possible_edges(k) == IF k > 1 THEN EdgesFrom(0, 1, k) ELSE <<>>

\* Faulty variant: the list is left in enumeration order.
NoShuffle(s) == {s}
\* random.shuffle: any permutation of the list may result
Shuffles(s) == { [k \in 1 .. Len(s) |-> s[p[k]]] : p \in Permutations(1 .. Len(s)) }

\* possible_edges[:m] for m >= 0
Prefix(s, k) == SubSeq(s, 1, IF k < Len(s) THEN k ELSE Len(s))

\* Faulty variant: graph[v].add(u) left out.
OneWayEdge(g, u, v) == [g EXCEPT ![u] = g[u] \cup {v}]
\* graph[u].add(v); graph[v].add(u)
add_edge(g, u, v) == [g EXCEPT ![u] = g[u] \cup {v}, ![v] = g[v] \cup {u}]

RECURSIVE add_edges(_, _)
add_edges(g, es) ==
    IF es = <<>> THEN g
    ELSE add_edges(add_edge(g, Head(es)[1], Head(es)[2]), Tail(es))

\* Faulty variant: the m > max_edges check left out.
NoUpperCheck(k, e) == k < 0 \/ e < 0
\* The argument checks: TRUE when ValueError is raised.
raises_ValueError(k, e) == k < 0 \/ e < 0 \/ e > max_edges(k)

\* The graph returned for a given outcome `sh` of the shuffle.
generate_random_graph(k, e, sh) ==
    add_edges([i \in Vertices(k) |-> {}], Prefix(sh, e))

\* --------------------------------------------------- compute_next_scores
\* degrees = {node: len(neighbors) for node, neighbors in graph.items()}
degrees(g) == [v \in DOMAIN g |-> Cardinality(g[v])]

\* Faulty variant: the degree of i, not of the neighbour j.
contribution_own_degree(x, deg, i, j) ==
    IF deg[i] > 0 THEN RatDiv(x[j], deg[i]) ELSE Rat(0)
\* One pass of the inner loop body: what neighbour j adds to y[i].
contribution(x, deg, i, j) ==
    IF deg[j] > 0 THEN RatDiv(x[j], deg[j]) ELSE Rat(0)

\* for j in graph[i]: ...   (the iteration order of a set is unspecified; the
\* exact sum does not depend on it)
RECURSIVE accumulate(_, _, _, _, _)
accumulate(acc, S, x, deg, i) ==
    IF S = {} THEN acc
    ELSE LET j == CHOOSE v \in S : TRUE
         IN accumulate(RatAdd(acc, contribution(x, deg, i, j)), S \ {j}, x, deg, i)

\* The vector y built by the two loops from the local copy x.
next_scores(g, x) ==
    [i \in DOMAIN g |-> accumulate(Rat(0), g[i], x, degrees(g), i)]

\* Faulty variant: the result is written into the list passed in.
compute_in_place(h, g, cur) ==
    LET x == IF cur = None THEN Repeat(Rat(1), Cardinality(DOMAIN g)) ELSE h[cur]
    IN IF cur = None
       THEN [heap |-> Append(h, next_scores(g, x)), ret |-> Len(h) + 1]
       ELSE [heap |-> [h EXCEPT ![cur] = next_scores(g, x)], ret |-> cur]
\* A call: h is the heap of lists, g the graph, cur the address of
\* current_scores (None when absent).  x is a private copy, y a fresh list;
\* the result is the heap after the call and the address returned.
compute_next_scores(h, g, cur) ==
    LET x == IF cur = None THEN Repeat(Rat(1), Cardinality(DOMAIN g)) ELSE h[cur]
    IN [heap |-> Append(h, next_scores(g, x)), ret |-> Len(h) + 1]

\* ------------------------------------------- handle_user_edge_addition
\* A line typed at the prompt is a sequence of one-character strings.
Digits == <<"0", "1", "2", "3", "4", "5", "6", "7", "8", "9">>
IsDigit(c) == \E d \in 1 .. 10 : Digits[d] = c
DigitVal(c) == (CHOOSE d \in 1 .. 10 : Digits[d] = c) - 1

\* str.split(): the maximal runs of non-blank characters
RECURSIVE split(_, _)
split(s, cur) ==
    IF s = <<>> THEN (IF cur = <<>> THEN <<>> ELSE <<cur>>)
    ELSE IF Head(s) = " "
         THEN (IF cur = <<>> THEN <<>> ELSE <<cur>>) \o split(Tail(s), <<>>)
         ELSE split(Tail(s), Append(cur, Head(s)))

RECURSIVE digits_value(_, _)
digits_value(s, acc) ==
    IF s = <<>> THEN acc ELSE digits_value(Tail(s), 10 * acc + DigitVal(Head(s)))

\* int(token): an optional sign and at least one digit, else ValueError
int(tok) ==
    LET signed == tok # <<>> /\ Head(tok) \in {"-", "+"}
        body == IF signed THEN Tail(tok) ELSE tok
        ok == body # <<>> /\ \A k \in 1 .. Len(body) : IsDigit(body[k])
    IN IF ~ok THEN [ok |-> FALSE, val |-> 0]
       ELSE [ok |-> TRUE,
             val |-> IF signed /\ Head(tok) = "-" THEN 0 - digits_value(body, 0)
                     ELSE digits_value(body, 0)]

\* i, j = map(int, user_input.split()): ValueError unless exactly two
\* tokens, both integers
parse(line) ==
    LET toks == split(line, <<>>)
    IN IF Len(toks) = 2 /\ int(toks[1]).ok /\ int(toks[2]).ok
       THEN [ok |-> TRUE, i |-> int(toks[1]).val, j |-> int(toks[2]).val]
       ELSE [ok |-> FALSE, i |-> 0, j |-> 0]

\* ------------------------------------------------------- the user's lines
RECURSIVE nat_str(_)
nat_str(v) ==
    IF v < 10 THEN <<Digits[v + 1]>>
    ELSE nat_str(v \div 10) \o <<Digits[(v % 10) + 1]>>

int_str(v) == IF v < 0 THEN <<"-">> \o nat_str(0 - v) ELSE nat_str(v)

\* "i j" for every pair of ids in [0, k-1], and for the pairs with an id just
\* below or just above the range: one id out and the other in, or both out
\* and equal
PairIds(k) ==
    (Vertices(k) \X Vertices(k)) \cup
    { <<0 - 1, 0>>, <<0, 0 - 1>>, <<k, 0>>, <<0, k>>, <<k, k>>, <<0 - 1, 0 - 1>> }

PairLines(k) == { int_str(e[1]) \o <<" ">> \o int_str(e[2]) : e \in PairIds(k) }

\* Lines that are not two plain integers, or are so only after int() and
\* split() have normalised them.
OddLines ==
    { <<>>, <<"0">>, <<"0", " ", "1", " ", "2">>, <<"x", " ", "0">>,
      <<"0", " ", "x">>, <<" ", "1", " ", " ", "0", " ">>,
      <<"+", "0", " ", "0", "1">> }

Lines(k) == PairLines(k) \cup OddLines

\* the lines a user of a k-vertex graph is given to type, tabulated
lines_for == [k \in 0 .. MaxN |-> Lines(k)]

\* parse, tabulated once over every line the user may type
parsed == [line \in Lines(MaxN) |-> parse(line)]

\* Faulty variant: the i == j check left out.
check_entry_no_distinct(g, k, line) ==
    LET p == parsed[line]
    IN IF ~p.ok THEN <<"Invalid">>
       ELSE IF ~(0 <= p.i /\ p.i < k /\ 0 <= p.j /\ p.j < k) THEN <<"OutOfRange">>
       ELSE IF p.j \in g[p.i] THEN <<"EdgeExists", p.i, p.j>>
       ELSE <<"ok">>
\* The body of the while loop: the message printed for a line, or <<"ok">>
\* when the loop breaks.
check_entry(g, k, line) ==
    LET p == parsed[line]
    IN IF ~p.ok THEN <<"Invalid">>
       ELSE IF ~(0 <= p.i /\ p.i < k /\ 0 <= p.j /\ p.j < k) THEN <<"OutOfRange">>
       ELSE IF p.i = p.j THEN <<"Distinct">>
       ELSE IF p.j \in g[p.i] THEN <<"EdgeExists", p.i, p.j>>
       ELSE <<"ok">>

\* Faulty variants: the second add left out; graph[j].add(j); the neighbour
\* sets assigned instead of extended.
connect_one_way(g, i, j) == [g EXCEPT ![i] = g[i] \cup {j}]
connect_typo(g, i, j) == [g EXCEPT ![i] = g[i] \cup {j}, ![j] = g[j] \cup {j}]
connect_overwrite(g, i, j) == [g EXCEPT ![i] = {j}, ![j] = {i}]
\* graph[i].add(j); graph[j].add(i)
connect(g, i, j) == [g EXCEPT ![i] = g[i] \cup {j}, ![j] = g[j] \cup {i}]

\* ----------------------------------------------------------- the program
\* __main__ generates the graph, computes the scores once and hands both to
\* handle_user_edge_addition; the session may call the latter again (up to
\* MaxCalls times) before it finishes.  nUpdates counts the calls of
\* compute_next_scores, added the accepted additions.
\* N_VERTICES and M_EDGES are the arguments of generate_random_graph; the
\* function is also modelled on arguments its own checks reject.
Init ==
    /\ pc = "start"
    /\ n \in (0 - 1) .. MaxN
    /\ m \in (0 - 1) .. (max_edges(MaxN) + 1)
    /\ graph = <<>>
    /\ heap = <<>>
    /\ scores = None
    /\ out = <<"none">>
    /\ added = 0
    /\ nUpdates = 0
    /\ nCalls = 0
    /\ calls = {}

\* generate_random_graph raises ValueError
GenerateFails ==
    /\ pc = "start"
    /\ raises_ValueError(n, m)
    /\ pc' = "error"
    /\ UNCHANGED <<n, m, graph, heap, scores, out, added, nUpdates, nCalls, calls>>

\* G = generate_random_graph(N_VERTICES, M_EDGES); initial_scores = [1.0] * N
Generate ==
    /\ pc = "start"
    /\ ~raises_ValueError(n, m)
    /\ \E sh \in Shuffles(possible_edges(n)) :
          graph' = generate_random_graph(n, m, sh)
    /\ heap' = <<Repeat(Rat(1), n)>>
    /\ scores' = 1
    /\ pc' = "generated"
    /\ UNCHANGED <<n, m, out, added, nUpdates, nCalls, calls>>

\* updated_scores = compute_next_scores(G, initial_scores)
Update ==
    /\ pc = "generated"
    /\ LET r == compute_next_scores(heap, graph, scores)
       IN /\ heap' = r.heap
          /\ scores' = r.ret
          /\ calls' = calls \cup {[g |-> graph, x |-> heap[scores], y |-> r.heap[r.ret]]}
    /\ nUpdates' = nUpdates + 1
    /\ pc' = "session"
    /\ UNCHANGED <<n, m, graph, out, added, nCalls>>

\* handle_user_edge_addition on a graph with fewer than 2 vertices
HandleTooSmall ==
    /\ pc = "session"
    /\ nCalls < MaxCalls
    /\ Cardinality(DOMAIN graph) < 2
    /\ out' = <<"TooSmall">>
    /\ nCalls' = nCalls + 1
    /\ UNCHANGED <<pc, n, m, graph, heap, scores, added, nUpdates, calls>>

\* handle_user_edge_addition enters its prompt loop
HandlePrompt ==
    /\ pc = "session"
    /\ nCalls < MaxCalls
    /\ Cardinality(DOMAIN graph) >= 2
    /\ pc' = "prompt"
    /\ nCalls' = nCalls + 1
    /\ UNCHANGED <<n, m, graph, heap, scores, out, added, nUpdates, calls>>

\* One pass of the loop that prints an error and prompts again
Reject(line) ==
    /\ pc = "prompt"
    /\ LET msg == check_entry(graph, Cardinality(DOMAIN graph), line)
       IN /\ msg # <<"ok">>
          /\ out' = msg
    /\ UNCHANGED <<pc, n, m, graph, heap, scores, added, nUpdates, nCalls, calls>>

\* The pass that breaks out of the loop, adds the edge, recomputes the
\* scores and returns
Accept(line) ==
    /\ pc = "prompt"
    /\ check_entry(graph, Cardinality(DOMAIN graph), line) = <<"ok">>
    /\ LET p == parsed[line]
           g == connect(graph, p.i, p.j)
           r == compute_next_scores(heap, g, scores)
       IN /\ graph' = g
          /\ out' = <<"Added", p.i, p.j>>
          /\ heap' = r.heap
          /\ scores' = r.ret
          /\ calls' = calls \cup {[g |-> g, x |-> heap[scores], y |-> r.heap[r.ret]]}
    /\ added' = added + 1
    /\ nUpdates' = nUpdates + 1
    /\ pc' = "session"
    /\ UNCHANGED <<n, m, nCalls>>

\* print("Process finished.")
Finish ==
    /\ pc = "session"
    /\ nCalls >= 1
    /\ pc' = "finished"
    /\ UNCHANGED <<n, m, graph, heap, scores, out, added, nUpdates, nCalls, calls>>

Next ==
    \/ GenerateFails
    \/ Generate
    \/ Update
    \/ HandleTooSmall
    \/ HandlePrompt
    \/ \E line \in lines_for[Cardinality(DOMAIN graph)] : Reject(line)
    \/ \E line \in lines_for[Cardinality(DOMAIN graph)] : Accept(line)
    \/ Finish

Spec == Init /\ [][Next]_vars

\* One pass of the loop on the line the user typed.
Enter(line) ==
    /\ line \in lines_for[Cardinality(DOMAIN graph)]
    /\ (Reject(line) \/ Accept(line))

\* The user keeps answering the prompt.
EnterSome == \E line \in DOMAIN parsed : Enter(line)

\* The loop breaks and the function returns.  A step of the program from
\* "prompt" to "session" is an Accept step, and one is possible exactly when
\* some line passes every check.
Returns ==
    /\ pc = "prompt"
    /\ \E line \in lines_for[Cardinality(DOMAIN graph)] :
          check_entry(graph, Cardinality(DOMAIN graph), line) = <<"ok">>
    /\ pc' = "session"

\* A user who enters every pair of vertex ids enters one the loop accepts
\* whenever there is one: the graph does not change while the loop waits.
\* Returns constrains pc alone, so its fairness is stated on pc.
FairSpec == Spec /\ WF_vars(EnterSome) /\ WF_pc(Returns)

\* --------------------------------- compute_next_scores on arbitrary inputs
PairSet(k) == { e \in Vertices(k) \X Vertices(k) : e[1] < e[2] }

GraphOf(k, E) ==
    [v \in Vertices(k) |-> { u \in Vertices(k) : <<u, v>> \in E \/ <<v, u>> \in E }]

\* every simple undirected graph on vertices 0..k-1
SimpleGraphs(k) == { GraphOf(k, E) : E \in SUBSET PairSet(k) }

InitScore ==
    /\ pc = "session"
    /\ n \in 0 .. MaxN
    /\ graph \in SimpleGraphs(n)
    /\ m = Cardinality({ e \in PairSet(n) : e[2] \in graph[e[1]] })
    /\ \E x \in [Vertices(n) -> { Rat(v) : v \in 0 .. MaxPrior }] : heap = <<x>>
    /\ scores = 1
    /\ out = <<"none">>
    /\ added = 0
    /\ nUpdates = 0
    /\ nCalls = 0
    /\ calls = {}

\* compute_next_scores(graph, v) for any list v built so far
Call(a) ==
    /\ nUpdates < MaxScoreCalls
    /\ LET r == compute_next_scores(heap, graph, a)
       IN /\ heap' = r.heap
          /\ scores' = r.ret
          /\ calls' = calls \cup {[g |-> graph, x |-> heap[a], y |-> r.heap[r.ret]]}
    /\ nUpdates' = nUpdates + 1
    /\ UNCHANGED <<pc, n, m, graph, out, added, nCalls>>

\* compute_next_scores(graph): current_scores absent
CallDefault ==
    /\ nUpdates < MaxScoreCalls
    /\ LET r == compute_next_scores(heap, graph, None)
       IN /\ heap' = r.heap
          /\ scores' = r.ret
          /\ calls' = calls \cup {[g |-> graph, x |-> Repeat(Rat(1), n), y |-> r.heap[r.ret]]}
    /\ nUpdates' = nUpdates + 1
    /\ UNCHANGED <<pc, n, m, graph, out, added, nCalls>>

NextScore ==
    \/ \E a \in 1 .. Len(heap) : Call(a)
    \/ CallDefault

SpecScore == InitScore /\ [][NextScore]_vars

\* ================================================================ claims
Generated == pc \in {"generated", "session", "prompt", "finished"}

\* generate_random_graph has just returned and nothing has been done since
JustGenerated == pc = "generated"

Arcs(g) == { e \in (DOMAIN g) \X ((DOMAIN g) \cup UNION { g[v] : v \in DOMAIN g }) :
                e[2] \in g[e[1]] }

UndirectedEdges(g) == { {e[1], e[2]} : e \in Arcs(g) }

Symmetric(g) == \A e \in Arcs(g) : e[2] \in DOMAIN g /\ e[1] \in g[e[2]]

NoSelfLoops(g) == \A v \in DOMAIN g : v \notin g[v]

\* C1: for every valid (n, m), whatever the shuffle, the graph returned by
\* generate_random_graph has key set {0..n-1}, exactly m undirected edges
\* (the neighbour-set sizes sum to 2m), no self-loop and symmetric adjacency.
C1_GeneratedGraphShape ==
    (Generated /\ added = 0) =>
        /\ DOMAIN graph = Vertices(n)
        /\ Cardinality(Arcs(graph)) = 2 * m
        /\ Cardinality(UndirectedEdges(graph)) = m
        /\ NoSelfLoops(graph)
        /\ Symmetric(graph)

C1_Witness == JustGenerated /\ n = 3 /\ m = 2 /\ graph[2] = {0, 1}

\* C2: generate_random_graph raises ValueError, and returns no graph, exactly
\* when n < 0 or m < 0 or m > n(n-1)/2; for n = 0 and n = 1 only m = 0 is
\* accepted (giving the empty and the one-vertex edgeless graph); every other
\* call succeeds.
C2_Invalid == n < 0 \/ m < 0 \/ 2 * m > n * (n - 1)

C2_ValueErrorExactly ==
    /\ (pc = "start" /\ C2_Invalid) => (ENABLED GenerateFails /\ ~ENABLED Generate)
    /\ (pc = "start" /\ ~C2_Invalid) => (ENABLED Generate /\ ~ENABLED GenerateFails)
    /\ (pc = "error") => (C2_Invalid /\ graph = <<>> /\ heap = <<>>)
    /\ Generated => ~C2_Invalid
    /\ (Generated /\ n \in {0, 1}) => (m = 0 /\ graph = [v \in Vertices(n) |-> {}])

C2_Witness == pc = "error" /\ n = 1 /\ m = 1

\* C3: over all outcomes of the shuffle, the graphs generate_random_graph(n, m)
\* can return are exactly the simple graphs on 0..n-1 with m edges; with
\* m = n(n-1)/2 the result is the complete graph.
C3_Outcomes(k, e) ==
    { generate_random_graph(k, e, sh) : sh \in Shuffles(possible_edges(k)) }

C3_GraphsWith(k, e) ==
    { GraphOf(k, E) : E \in { F \in SUBSET PairSet(k) : Cardinality(F) = e } }

C3_EveryGraphReachable ==
    JustGenerated =>
        /\ C3_Outcomes(n, m) = C3_GraphsWith(n, m)
        /\ graph \in C3_GraphsWith(n, m)
        /\ (2 * m = n * (n - 1)) => graph = [v \in Vertices(n) |-> Vertices(n) \ {v}]

\* a graph that only a shuffle can produce: (0,1) is the head of the
\* unshuffled list, yet the single edge chosen is (1,2)
C3_Witness == JustGenerated /\ n = 3 /\ m = 1 /\ graph[1] = {2}

\* C4: compute_next_scores returns a vector y of length n with
\* y[i] = sum over j in neighbors(i) of prior[j] / degree(j), the prior being
\* all ones when absent; so an edgeless graph gives all zeros and the
\* all-ones prior is a fixed point on the single edge and on the triangle.
RECURSIVE C4_Sum(_, _)
C4_Sum(S, term) ==
    IF S = {} THEN Rat(0)
    ELSE LET j == CHOOSE v \in S : TRUE
         IN RatAdd(term[j], C4_Sum(S \ {j}, term))

C4_Expected(g, x) ==
    [i \in DOMAIN g |->
        C4_Sum(g[i], [j \in g[i] |-> <<x[j][1], x[j][2] * Cardinality(g[j])>>])]

\* equality of fractions by cross-multiplication
C4_SameValue(a, b) == a[1] * b[2] = b[1] * a[2]

C4_Complete(k) == [v \in Vertices(k) |-> Vertices(k) \ {v}]

C4_ScoreFormula ==
    \A c \in calls :
        /\ DOMAIN c.y = Vertices(n)
        /\ \A i \in Vertices(n) : C4_SameValue(c.y[i], C4_Expected(c.g, c.x)[i])
        /\ (\A v \in DOMAIN c.g : c.g[v] = {}) => c.y = Repeat(Rat(0), n)
        /\ (c.x = Repeat(Rat(1), n) /\ n \in {2, 3} /\ c.g = C4_Complete(n))
              => c.y = Repeat(Rat(1), n)

\* a path 0 - 1 - 2 with prior (1, 1, 0): vertex 1 collects 1 from vertex 0,
\* vertex 0 and vertex 2 each collect half of vertex 1's score
C4_Witness ==
    /\ n = 3
    /\ \E c \in calls :
          /\ c.g = (0 :> {1} @@ 1 :> {0, 2} @@ 2 :> {1})
          /\ c.x = (0 :> Rat(1) @@ 1 :> Rat(1) @@ 2 :> Rat(0))
          /\ c.y = (0 :> <<1, 2>> @@ 1 :> Rat(1) @@ 2 :> <<1, 2>>)

\* C5: a call to compute_next_scores leaves the graph and every existing list
\* (the prior included) unchanged, returns a list that did not exist before,
\* and calls with the same graph and prior return the same vector whatever
\* was called in between.
C5_PureFunction ==
    [][ (nUpdates' = nUpdates + 1) =>
          /\ graph' = graph
          /\ Len(heap') = Len(heap) + 1
          /\ \A a \in 1 .. Len(heap) : heap'[a] = heap[a]
          /\ scores' \notin 1 .. Len(heap)
          /\ scores' \in 1 .. Len(heap')
          /\ \A c, d \in calls' : (c.g = d.g /\ c.x = d.x) => c.y = d.y ]_vars

\* the same list passed twice, with a call on another list in between:
\* three calls, two distinct (graph, prior, result) records, the third result
\* equal to the first and different from the second
C5_Witness ==
    /\ nUpdates = 3
    /\ Len(heap) = 4
    /\ Cardinality(calls) = 2
    /\ heap[2] # heap[1]
    /\ heap[3] # heap[2]
    /\ heap[4] = heap[2]

\* C6: in the edge-addition loop an entered pair (i, j) is rejected with
\* OutOfRange if i or j is outside [0, n-1], else with DuplicateVertex if
\* i = j, else with EdgeExists if the edge is present in either orientation;
\* a rejected or unparsable line leaves graph and scores unchanged and leads
\* to another prompt, not to an update.
C6_Verdict(g, k, p) ==
    IF ~p.ok THEN <<"Invalid">>
    ELSE IF p.i \notin Vertices(k) \/ p.j \notin Vertices(k) THEN <<"OutOfRange">>
    ELSE IF p.i = p.j THEN <<"Distinct">>
    ELSE IF p.j \in g[p.i] \/ p.i \in g[p.j] THEN <<"EdgeExists", p.i, p.j>>
    ELSE <<"Added", p.i, p.j>>

C6_Rejections ==
    [][ \A line \in lines_for[Cardinality(DOMAIN graph)] :
          (pc = "prompt" /\ Enter(line)) =>
             LET verdict == C6_Verdict(graph, n, parsed[line])
             IN /\ out' = verdict
                /\ verdict[1] # "Added" =>
                      /\ graph' = graph
                      /\ heap' = heap
                      /\ scores' = scores
                      /\ added' = added
                      /\ pc' = "prompt" ]_vars

\* the edge (0,1) was added interactively and its reverse (1,0) is then refused
C6_Witness ==
    /\ pc = "prompt"
    /\ n = 2
    /\ m = 0
    /\ added = 1
    /\ out = <<"EdgeExists", 1, 0>>

\* C7: an accepted addition (i, j) puts j in neighbors(i) and i in
\* neighbors(j), raises the undirected edge count by exactly one and changes
\* no other membership of any neighbour set.
C7_AcceptedAddition ==
    [][ \A line \in lines_for[Cardinality(DOMAIN graph)] :
          (pc = "prompt" /\ pc' = "session" /\ Accept(line)) =>
             LET i == parsed[line].i
                 j == parsed[line].j
             IN /\ i \in Vertices(n) /\ j \in Vertices(n) /\ i # j
                /\ j \notin graph[i] /\ i \notin graph[j]
                /\ j \in graph'[i]
                /\ i \in graph'[j]
                /\ Cardinality(UndirectedEdges(graph')) =
                      Cardinality(UndirectedEdges(graph)) + 1
                /\ DOMAIN graph' = DOMAIN graph
                /\ \A v \in DOMAIN graph : \A u \in graph[v] \cup graph'[v] :
                      ((u \in graph'[v]) # (u \in graph[v])) => {u, v} = {i, j} ]_vars

C7_Witness ==
    /\ pc = "session"
    /\ n = 3
    /\ m = 1
    /\ added = 1
    /\ out = <<"Added", 2, 0>>
    /\ graph = (0 :> {1, 2} @@ 1 :> {0} @@ 2 :> {0})

\* C8: after a successful generate_random_graph(n, m), whatever score updates
\* and edge-addition attempts follow, the graph stays symmetric and free of
\* self-loops with vertex set {0..n-1}, its undirected edge count is m plus
\* the number of accepted additions, and no edge is ever removed.
C8_Shape ==
    /\ Symmetric(graph)
    /\ NoSelfLoops(graph)
    /\ DOMAIN graph = Vertices(n)
    /\ Cardinality(UndirectedEdges(graph)) = m + added

C8_GraphInvariants ==
    [][ Generated' =>
          /\ C8_Shape'
          /\ Generated => /\ Arcs(graph) \subseteq Arcs(graph')
                          /\ added' \in {added, added + 1}
                          /\ (added' = added + 1) <=> (pc = "prompt" /\ pc' = "session") ]_vars

\* a score update, an accepted addition with its update, and a refused attempt
\* in the next call
C8_Witness ==
    /\ pc = "prompt"
    /\ n = 3
    /\ m = 1
    /\ added = 1
    /\ nUpdates = 2
    /\ nCalls = 2
    /\ out[1] = "EdgeExists"

\* C9: every operation terminates; in particular handle_user_edge_addition
\* called on any graph generate_random_graph can produce (added = 0: no edge was
\* added since) returns, provided the user keeps answering and enters every
\* pair of vertex ids.
C9_HandleReturns == (pc = "prompt" /\ added = 0) ~> (pc = "session")

\* C10: every vertex that appears in a neighbour set has degree >= 1, so the
\* degrees[j] > 0 guard never suppresses a contribution: the guarded sum
\* equals the unguarded one.
C10_Unguarded(g, x) ==
    [i \in DOMAIN g |->
        C4_Sum(g[i], [j \in g[i] |-> RatDiv(x[j], Cardinality(g[j]))])]

C10_GuardNeverFalse ==
    Generated =>
        /\ \A i \in DOMAIN graph : \A j \in graph[i] :
              j \in DOMAIN graph /\ degrees(graph)[j] >= 1
        /\ next_scores(graph, heap[scores]) = C10_Unguarded(graph, heap[scores])

\* vertex 2 was isolated when generated and is a neighbour after the accepted
\* addition; the scores are those recomputed on the path 0 - 1 - 2
C10_Witness ==
    /\ pc = "session"
    /\ n = 3
    /\ m = 1
    /\ added = 1
    /\ graph = (0 :> {1} @@ 1 :> {0, 2} @@ 2 :> {1})
    /\ heap[scores] = (0 :> <<1, 2>> @@ 1 :> Rat(1) @@ 2 :> <<1, 2>>)

====
